---- MODULE Spec2Model ----
(***************************************************************************)
(* Model of fps_auth_thinkube/routes.py: the AuthThinkube plugin.          *)
(*                                                                         *)
(* State: the in-memory session store (_users, token -> ThinkubeUser), the *)
(* store lock, the hub's view of every token, the background task group    *)
(* with its activity posts, and the request-handling tasks in flight, each *)
(* with its position in its handler.                                       *)
(*                                                                         *)
(* Steps: a handler's code up to an await is one step, and so is each      *)
(* await (a hub call, acquiring the lock).  The code exchange of the       *)
(* callback is called without await: it is a step during which nothing     *)
(* else runs.  Inside the locked region of                                 *)
(* current_user the lookup and the insert are separate steps, and the      *)
(* scheduling of the activity post is a step after the lock is left, so    *)
(* that nothing rests on the event loop running them together.             *)
(*                                                                         *)
(* The hub: HubOAuth is a library; its calls are modelled by what the      *)
(* handlers rely on.  Every code exchange that succeeds yields a token     *)
(* never issued before, a token resolves to a user model with a non-empty  *)
(* "name" or to None, and the hub may revoke a token or change its owner's *)
(* scopes at any time.  A client presents no cookie or a token the hub has *)
(* issued and that has been delivered.                                     *)
(*                                                                         *)
(* Four specifications: Spec is the started plugin serving the callback,   *)
(* the resolver, update_user and the WebSocket gate; SpecLife is the       *)
(* resolver under start(), stop() and activity posts that return or raise; *)
(* SpecLogin is a process whose tokens all come from its own callback,     *)
(* with update_user and GET /api/me; SpecIdentity is the callback and the  *)
(* resolver under every directory of user names at the hub.                *)
(***************************************************************************)
EXTENDS Integers, Sequences, FiniteSets, TLC

\* ------------------------------------------------------------------ bounds
NumReqs == 2        \* request-handling tasks that can be in flight together
MaxTokens == 2      \* tokens the hub ever issues
MaxPosts == 1       \* activity posts running in the task group at once

Reqs == 1..NumReqs
Tokens == 1..MaxTokens

\* ------------------------------------------------------- program constants
HTTP_307_TEMPORARY_REDIRECT == 307
HTTP_403_FORBIDDEN == 403
HTTP_500_INTERNAL_SERVER_ERROR == 500
WS_1008_POLICY_VIOLATION == 1008

\* Python's None for an absent cookie or query parameter holding a token or a
\* code; optional structured values are <<>> (None) or <<v>>.
NoToken == 0
None == <<>>
Some(v) == <<v>>

\* ----------------------------------------------------------------- strings
\* A string is a sequence of one-character strings.
IsSpace(c) == c = " "

LowerCase == <<"a", "b", "l", "n", "o", "w">>
UpperCase == <<"A", "B", "L", "N", "O", "W">>

\* str.upper() on one character: letters are mapped, anything else is kept.
Upper(c) ==
    IF \E i \in DOMAIN LowerCase : LowerCase[i] = c
    THEN UpperCase[CHOOSE i \in DOMAIN LowerCase : LowerCase[i] = c]
    ELSE c

\* str.split(): the maximal runs of non-whitespace characters.
RECURSIVE SplitAcc(_, _, _)
SplitAcc(s, cur, out) ==
    IF s = <<>>
    THEN IF cur = <<>> THEN out ELSE Append(out, cur)
    ELSE IF IsSpace(Head(s))
         THEN SplitAcc(Tail(s), <<>>, IF cur = <<>> THEN out ELSE Append(out, cur))
         ELSE SplitAcc(Tail(s), Append(cur, Head(s)), out)

Split(s) == SplitAcc(s, <<>>, <<>>)

\* the initial of the first word only
InitialsFirstWord(display_name) ==
    LET words == Split(display_name)
    IN  IF words = <<>> THEN <<>> ELSE <<Upper(words[1][1])>>

\* "".join(word[0].upper() for word in display_name.split() if word)
Initials(display_name) ==
    LET words == Split(display_name)
    IN  [i \in 1..Len(words) |-> Upper(words[i][1])]

\* lines 96 and 103, 177 and 184: initials or username[0].upper()
DeriveInitials(display_name, username) ==
    LET initials == Initials(display_name)
    IN  IF initials # <<>> THEN initials ELSE <<Upper(username[1])>>

Anonymous == <<"a", "n", "o", "n">>

\* dict.get(key, default)
DictGet(d, key, default) == IF key \in DOMAIN d THEN d[key] ELSE default

\* --------------------------------------------------------------- variables
VARIABLES
    users,          \* self._users: token -> reference to a record, 0 if absent
    heap,           \* the ThinkubeUser objects ever constructed and stored
    lock,           \* self._lock: 0 when free, else the task holding it
    hub,            \* the hub's status of every token
    req,            \* the request-handling tasks
    task_group,     \* self.task_group: "unset", "active", "crashed", "cancelled"
    posts,          \* activity posts running in the task group
    stop_pc,        \* stop(): "idle", "closed" (http client closed), "done"
    activity_url,   \* JUPYTERHUB_ACTIVITY_URL is set
    names           \* the hub's user directory: the name of each token's owner

vars == <<users, heap, lock, hub, req, task_group, posts, stop_pc, activity_url,
          names>>

\* ---------------------------------------------------------------- the hub
\* Every token is, at the hub, not issued yet, valid with the access scope,
\* valid without it, or revoked.
HubStatus == {"unissued", "scoped", "unscoped", "revoked"}

AccessScope == "access:servers"

\* The hub's user names: two words, one word, whitespace only, two words among
\* leading, repeated and trailing whitespace.  The hub's user model always
\* carries a non-empty "name".
HubNames == << <<"a", "l", " ", "w", "o">>, <<"b", "o", "b">>, <<" ">>,
               <<" ", "n", " ", " ", "o", " ">> >>
HubName(t) == HubNames[((t - 1) % Len(HubNames)) + 1]

\* hub_auth.access_scopes
access_scopes == {AccessScope}

\* hub_auth.user_for_token(token, use_cache=False, sync=False): the hub's
\* model of the token's owner, or None.
user_for_token(h, token) ==
    IF h[token] \in {"scoped", "unscoped"}
    THEN Some([name |-> names[token],
               scopes |-> IF h[token] = "scoped" THEN {AccessScope} ELSE {}])
    ELSE None

\* a scope check that grants whatever is required
check_scopes_granted(required, user) == required

\* hub_auth.check_scopes(required, user): the required scopes the user has.
check_scopes(required, user) == required \cap user.scopes

\* hub_auth.generate_state(next_url): a fresh value that encodes next_url.
Urls == {"/lab", "/tree"}
Nonces == {"n1"}
States == {<<n, u>> : n \in Nonces, u \in Urls}
\* a next URL that forgets where the login began
get_next_url_default(state) == "/lab"

\* hub_auth.get_next_url(state)
get_next_url(state) == state[2]

LoginUrl == "hub/api/oauth2/authorize?client_id=jupyverse"

\* ------------------------------------------------------------ User Record
Fields == {"username", "name", "display_name", "initials", "avatar_url", "color",
           "token", "anonymous", "workspace", "settings", "permissions"}

\* ThinkubeUser(token=..., username=..., name=..., display_name=...,
\*              initials=..., anonymous=False); the other fields default.
ThinkubeUser(token, username, display_name, initials) ==
    [username |-> username, name |-> username, display_name |-> display_name,
     initials |-> initials, avatar_url |-> None, color |-> None,
     token |-> token, anonymous |-> FALSE, workspace |-> <<"{", "}">>,
     settings |-> <<"{", "}">>, permissions |-> <<>>]

\* The record the callback and the resolver build from the hub's user model.
NewUser(token, hub_user) ==
    LET username == DictGet(hub_user, "name", Anonymous)
        display_name == DictGet(hub_user, "name", username)
    IN  ThinkubeUser(token, username, display_name,
                     DeriveInitials(display_name, username))

\* -------------------------------------------------------------- responses
NoResult ==
    [kind |-> "none", status |-> 0, location |-> <<>>, set_cookie |-> <<>>,
     session_cookie |-> NoToken, detail |-> <<>>, user |-> 0, principal |-> <<>>,
     closed |-> 0, body |-> <<>>]

\* raise HTTPException(status_code=403[, detail=...])
Forbidden(detail) ==
    [NoResult EXCEPT !.kind = "http_exception", !.status = HTTP_403_FORBIDDEN,
                     !.detail = detail]

\* an exception no handler catches: the framework answers 500
Unhandled(what) ==
    [NoResult EXCEPT !.kind = "exception", !.status = HTTP_500_INTERNAL_SERVER_ERROR,
                     !.detail = <<what>>]

\* _redirect_to_login without the Set-Cookie header
redirect_without_cookie(state) ==
    [NoResult EXCEPT !.kind = "http_exception",
                     !.status = HTTP_307_TEMPORARY_REDIRECT,
                     !.location = <<LoginUrl, "&state=", state>>]

\* _redirect_to_login(request), with the state generate_state produced
redirect_to_login(state) ==
    [NoResult EXCEPT !.kind = "http_exception",
                     !.status = HTTP_307_TEMPORARY_REDIRECT,
                     !.location = <<LoginUrl, "&state=", state>>,
                     !.set_cookie = <<state>>]

\* RedirectResponse(next_url) with the session cookie set
CallbackRedirect(next_url, token) ==
    [NoResult EXCEPT !.kind = "response", !.status = HTTP_307_TEMPORARY_REDIRECT,
                     !.location = <<next_url>>, !.session_cookie = token]

\* a dependency returning a user record (a reference into the heap)
ReturnUser(oid) == [NoResult EXCEPT !.kind = "return", !.user = oid]
ReturnNone == [NoResult EXCEPT !.kind = "return"]

\* permissions arguments: None, {} and a non-empty map
PermChoices == {None, Some(<<>>), Some([contents |-> <<"read">>])}

\* "if permissions is not None:"
IsNotNone(permissions) == permissions # None

\* "if permissions:" on dict | None
Truthy(permissions) == permissions # None /\ DOMAIN permissions[1] # {}

IdleReq ==
    [op |-> "idle", pc |-> "idle", token |-> NoToken, code |-> None, state |-> None,
     cookie_state |-> None, url |-> "", permissions |-> None, data |-> <<>>,
     hub_user |-> None, user |-> 0, hub_calls |-> 0, inserted |-> 0,
     scheduled |-> 0, query |-> <<>>, result |-> NoResult, before |-> <<>>]

Free(r) == req[r].pc = "idle"

\* The tokens the store has an entry for.
Stored == {t \in Tokens : users[t] # 0}

\* No finished request is waiting for its response to be delivered.
Quiet == \A r \in Reqs : req[r].pc # "done"

\* A token a client can present: the hub issued it and no callback still holds
\* it undelivered.
Presentable(t) ==
    /\ hub[t] # "unissued"
    /\ \A r \in Reqs : ~(req[r].op = "callback" /\ req[r].pc # "done" /\ req[r].token = t)

\* Tokens issued before this process started are valid at the hub; the hub
\* issues tokens in order.
InitHub ==
    {h \in [Tokens -> {"unissued", "scoped", "unscoped"}] :
        \A t, u \in Tokens : (t < u /\ h[t] = "unissued") => h[u] = "unissued"}

\* The state after __init__ (lines 46-62).
Constructed ==
    /\ users = [t \in Tokens |-> 0]
    /\ heap = <<>>
    /\ lock = 0
    /\ hub \in InitHub
    /\ req = [r \in Reqs |-> IdleReq]
    /\ posts = 0
    /\ stop_pc = "idle"
    /\ activity_url \in BOOLEAN

\* The hub's directory when the names are not what is looked at.
DefaultNames == [t \in Tokens |-> HubName(t)]

\* The plugin serving requests: start() has entered its task group.
Init == Constructed /\ task_group = "active" /\ names = DefaultNames

\* The plugin from construction on, start() not yet called.
InitLife == Constructed /\ task_group = "unset" /\ names = DefaultNames

\* ------------------------------------------------------------ the handlers
\* A handler reads its inputs (query parameters, cookies, the request URL, the
\* payload) where the code reads them; an input the path taken never reads is
\* left at its default.

\* A request finishes with a result; before keeps what the plugin's state was
\* when the finishing step began.
Finish(rq, result) ==
    [rq EXCEPT !.pc = "done", !.result = result,
               !.before = [users |-> users, heap |-> heap, lock |-> lock,
                           hub |-> hub, posts |-> posts]]

\* lines 78-79 with the comparison against the cookie left out
StateValidPresent(state, cookie_state) == state # None

\* lines 78-79: the state parameter must be present and equal the state cookie
StateValid(state, cookie_state) == ~(state = None \/ state # cookie_state)

\* a lock that never excludes
CanAcquireAlways(l) == TRUE

\* anyio Lock: acquire succeeds only while no task holds the lock
CanAcquire(l) == l = 0

\* The hub issues tokens in order; each is new.
FreshToken ==
    CHOOSE t \in Tokens : hub[t] = "unissued" /\ \A u \in Tokens : hub[u] = "unissued" => t <= u

\* GET /oauth_callback, the checks of lines 73-79
CbBegin(r) ==
    /\ Free(r)
    /\ \E code \in {None, Some("c1")} :
         LET rq == [IdleReq EXCEPT !.op = "callback", !.code = code]
         IN  IF code = None
             THEN req' = [req EXCEPT ![r] = Finish(rq, Forbidden(None))]
             ELSE \E state \in {None} \cup States, cookie_state \in {None} \cup States :
                    LET rs == [rq EXCEPT !.state = state, !.cookie_state = cookie_state]
                    IN  req' = [req EXCEPT ![r] =
                           IF ~StateValid(state, cookie_state)
                           THEN Finish(rs, Forbidden(None))
                           ELSE [rs EXCEPT !.pc = "cb_exchange"]]
    /\ UNCHANGED <<users, heap, lock, hub, task_group, posts, stop_pc, activity_url, names>>

\* The event loop's thread is inside token_for_code (line 82 calls it without
\* await): until the call comes back no other task and no callback of the loop
\* runs.
Blocking == \E r \in Reqs : req[r].pc = "cb_exchange"

\* line 82: token = self.hub_auth.token_for_code(code); the call returns a token
\* the hub has just issued, or raises, and nothing here catches that
CbExchange(r) ==
    /\ req[r].op = "callback" /\ req[r].pc = "cb_exchange"
    /\ \/ /\ req' = [req EXCEPT ![r] =
                Finish([@ EXCEPT !.hub_calls = 1], Unhandled("HTTPError"))]
          /\ hub' = hub
       \/ /\ \E t \in Tokens : hub[t] = "unissued"
          /\ \E s \in {"scoped", "unscoped"} : hub' = [hub EXCEPT ![FreshToken] = s]
          /\ req' = [req EXCEPT ![r] =
                [@ EXCEPT !.pc = "cb_resolve", !.token = FreshToken, !.hub_calls = 1]]
    /\ UNCHANGED <<users, heap, lock, task_group, posts, stop_pc, activity_url, names>>

\* lines 85-105: the hub resolves the token; the record is built
CbResolve(r) ==
    /\ req[r].op = "callback" /\ req[r].pc = "cb_resolve"
    /\ LET hub_user == user_for_token(hub, req[r].token)
           rq == [req[r] EXCEPT !.hub_user = hub_user, !.hub_calls = @ + 1]
       IN  req' = [req EXCEPT ![r] =
              IF hub_user = None
              THEN Finish(rq, Forbidden(<<"Failed to get user info from JupyterHub">>))
              ELSE [rq EXCEPT !.pc = "cb_lock"]]
    /\ UNCHANGED <<users, heap, lock, hub, task_group, posts, stop_pc, activity_url, names>>

\* line 108: async with self._lock
CbAcquire(r) ==
    /\ req[r].op = "callback" /\ req[r].pc = "cb_lock"
    /\ CanAcquire(lock)
    /\ lock' = r
    /\ req' = [req EXCEPT ![r].pc = "cb_store"]
    /\ UNCHANGED <<users, heap, hub, task_group, posts, stop_pc, activity_url, names>>

\* the insertion left out
StoreUserDropped(u, token, oid) == u

\* lines 109 and 187: self._users[token] = user
StoreUser(u, token, oid) == [u EXCEPT ![token] = oid]

\* lines 109-115: store the record, release the lock, redirect
CbStore(r) ==
    /\ req[r].op = "callback" /\ req[r].pc = "cb_store"
    /\ LET oid == Len(heap) + 1
       IN  /\ heap' = Append(heap, NewUser(req[r].token, req[r].hub_user[1]))
           /\ users' = StoreUser(users, req[r].token, oid)
           /\ req' = [req EXCEPT ![r] =
                 Finish([req[r] EXCEPT !.user = oid, !.inserted = @ + 1],
                        CallbackRedirect(get_next_url(req[r].cookie_state),
                                         req[r].token))]
    /\ lock' = 0
    /\ UNCHANGED <<hub, task_group, posts, stop_pc, activity_url, names>>

\* hub_auth.generate_state(next_url=str(request.url))
generate_state(next_url) == CHOOSE st \in States : st[2] = next_url

\* The cookie a request carries: none, or a token a client can hold.
Cookies == {NoToken} \cup {t \in Tokens : Presentable(t)}

\* current_user()'s dependency, up to the first await (lines 152-156, 209-214)
CuBegin(r) ==
    /\ Free(r)
    /\ \E token \in Cookies :
         LET rq == [IdleReq EXCEPT !.op = "current_user", !.token = token]
         IN  IF token # NoToken
             THEN req' = [req EXCEPT ![r] = [rq EXCEPT !.pc = "cu_resolve"]]
             ELSE \E permissions \in PermChoices :
                    LET rp == [rq EXCEPT !.permissions = permissions]
                    IN  IF Truthy(permissions)
                        THEN req' = [req EXCEPT ![r] = Finish(rp, Forbidden(None))]
                        ELSE \E url \in Urls :
                               req' = [req EXCEPT ![r] =
                                  Finish([rp EXCEPT !.url = url],
                                         redirect_to_login(generate_state(url)))]
    /\ UNCHANGED <<users, heap, lock, hub, task_group, posts, stop_pc, activity_url, names>>

\* lines 154-168: the hub validates the token, then the scope check
CuResolve(r) ==
    /\ req[r].op = "current_user" /\ req[r].pc = "cu_resolve"
    /\ LET hub_user == user_for_token(hub, req[r].token)
           rq == [req[r] EXCEPT !.hub_user = hub_user, !.hub_calls = @ + 1]
       IN  IF hub_user = None
           THEN \E url \in Urls :
                  req' = [req EXCEPT ![r] =
                     Finish([rq EXCEPT !.url = url],
                            redirect_to_login(generate_state(url)))]
           ELSE IF check_scopes(access_scopes, hub_user[1]) = {}
           THEN req' = [req EXCEPT ![r] =
                   Finish(rq, Forbidden(<<"User", hub_user[1]["name"],
                                          "cannot access this server">>))]
           ELSE req' = [req EXCEPT ![r] = [rq EXCEPT !.pc = "cu_lock"]]
    /\ UNCHANGED <<users, heap, lock, hub, task_group, posts, stop_pc, activity_url, names>>

\* line 171: async with self._lock
CuAcquire(r) ==
    /\ req[r].op = "current_user" /\ req[r].pc = "cu_lock"
    /\ CanAcquire(lock)
    /\ lock' = r
    /\ req' = [req EXCEPT ![r].pc = "cu_get"]
    /\ UNCHANGED <<users, heap, hub, task_group, posts, stop_pc, activity_url, names>>

\* a lookup that never finds anything
UsersGetMiss(u, token) == 0

\* lines 172 and 237: self._users.get(token), 0 for None
UsersGet(u, token) == u[token]

\* lines 172-173: user = self._users.get(token); a hit leaves the lock
CuGet(r) ==
    /\ req[r].op = "current_user" /\ req[r].pc = "cu_get"
    /\ LET user == UsersGet(users, req[r].token)
       IN  IF user # 0
           THEN /\ req' = [req EXCEPT ![r] = [@ EXCEPT !.user = user, !.pc = "cu_report"]]
                /\ lock' = 0
           ELSE /\ req' = [req EXCEPT ![r].pc = "cu_create"]
                /\ lock' = lock
    /\ UNCHANGED <<users, heap, hub, task_group, posts, stop_pc, activity_url, names>>

\* lines 174-187: build the record, insert it, leave the lock
CuCreate(r) ==
    /\ req[r].op = "current_user" /\ req[r].pc = "cu_create"
    /\ LET oid == Len(heap) + 1
       IN  /\ heap' = Append(heap, NewUser(req[r].token, req[r].hub_user[1]))
           /\ users' = StoreUser(users, req[r].token, oid)
           /\ req' = [req EXCEPT ![r] =
                 [@ EXCEPT !.user = oid, !.inserted = @ + 1, !.pc = "cu_report"]]
    /\ lock' = 0
    /\ UNCHANGED <<hub, task_group, posts, stop_pc, activity_url, names>>

\* the post awaited to its end before the resolver goes on
start_soon_awaited(running) == running

\* line 196: task_group.start_soon(...) adds a task to the group and returns
start_soon(running) == running + 1

\* lines 190-207: schedule the activity post, return the user
CuReport(r) ==
    /\ req[r].op = "current_user" /\ req[r].pc = "cu_report"
    /\ IF ~activity_url
       THEN /\ req' = [req EXCEPT ![r] = Finish(@, ReturnUser(@.user))]
            /\ posts' = posts
       ELSE IF task_group = "unset"
       THEN \* self.task_group is not set before start()
            /\ req' = [req EXCEPT ![r] = Finish(@, Unhandled("AttributeError"))]
            /\ posts' = posts
       ELSE IF task_group # "active"
       THEN \* start_soon on a task group that has exited
            /\ req' = [req EXCEPT ![r] = Finish(@, Unhandled("RuntimeError"))]
            /\ posts' = posts
       ELSE /\ posts < MaxPosts
            /\ posts' = start_soon(posts)
            /\ req' = [req EXCEPT ![r] =
                  Finish([@ EXCEPT !.scheduled = @ + 1], ReturnUser(@.user))]
    /\ UNCHANGED <<users, heap, lock, hub, task_group, stop_pc, activity_url, names>>

\* ------------------------------------------------------------- update_user
\* The payloads: two fields of the record with an unknown name beside them,
\* the token field, nothing.
Payloads ==
    {[display_name |-> <<"X">>, nickname |-> <<"X">>,
      permissions |-> [contents |-> <<"read">>]], <<>>}
        \cup {[token |-> t] : t \in Tokens}

\* lines 240-242 without the hasattr test
ApplyUpdateNoHasattr(user, data) ==
    [k \in DOMAIN user \cup DOMAIN data |-> IF k \in DOMAIN data THEN data[k] ELSE user[k]]

\* lines 240-242: for k, v in data.items(): if hasattr(user, k): setattr(user, k, v)
ApplyUpdate(user, data) ==
    [k \in DOMAIN user |-> IF k \in DOMAIN data THEN data[k] ELSE user[k]]

\* update_user's dependency up to the lock (line 235)
UuBegin(r) ==
    /\ Free(r)
    /\ \E token \in Cookies :
         LET rq == [IdleReq EXCEPT !.op = "update_user", !.token = token]
         IN  req' = [req EXCEPT ![r] =
                IF token # NoToken THEN [rq EXCEPT !.pc = "uu_lock"]
                ELSE Finish(rq, ReturnNone)]
    /\ UNCHANGED <<users, heap, lock, hub, task_group, posts, stop_pc, activity_url, names>>

\* line 236: async with self._lock
UuAcquire(r) ==
    /\ req[r].op = "update_user" /\ req[r].pc = "uu_lock"
    /\ CanAcquire(lock)
    /\ lock' = r
    /\ req' = [req EXCEPT ![r].pc = "uu_apply"]
    /\ UNCHANGED <<users, heap, hub, task_group, posts, stop_pc, activity_url, names>>

\* lines 237-244: look the record up, set the fields, leave the lock
UuApply(r) ==
    /\ req[r].op = "update_user" /\ req[r].pc = "uu_apply"
    /\ LET user == UsersGet(users, req[r].token)
       IN  IF user # 0
           THEN \E data \in Payloads :
                  /\ heap' = [heap EXCEPT ![user] = ApplyUpdate(@, data)]
                  /\ req' = [req EXCEPT ![r] =
                        Finish([@ EXCEPT !.data = data, !.user = user], ReturnUser(user))]
           ELSE /\ heap' = heap
                /\ req' = [req EXCEPT ![r] = Finish(@, ReturnNone)]
    /\ lock' = 0
    /\ UNCHANGED <<users, hub, task_group, posts, stop_pc, activity_url, names>>

\* ---------------------------------------------------------- websocket_auth
\* websocket.close(code=1008); return None
WsClosed == [NoResult EXCEPT !.kind = "return", !.closed = WS_1008_POLICY_VIOLATION]

\* return websocket, permissions
WsAccepted(r, permissions) ==
    [NoResult EXCEPT !.kind = "return",
                     !.principal = Some([first |-> [tag |-> "websocket", id |-> r],
                                         permissions |-> permissions])]

\* accept whenever the cookie is there
AcceptWithCookie(hub_user) == TRUE

\* lines 267-268: accept when the hub resolved the token
AcceptWebsocket(hub_user) == hub_user # None

\* lines 257-260 and 270-274 without a cookie
WsBegin(r) ==
    /\ Free(r)
    /\ \E token \in Cookies :
         LET rq == [IdleReq EXCEPT !.op = "websocket", !.token = token]
         IN  req' = [req EXCEPT ![r] =
                IF token # NoToken THEN [rq EXCEPT !.pc = "ws_resolve"]
                ELSE Finish(rq, WsClosed)]
    /\ UNCHANGED <<users, heap, lock, hub, task_group, posts, stop_pc, activity_url, names>>

\* lines 263-274
WsResolve(r) ==
    /\ req[r].op = "websocket" /\ req[r].pc = "ws_resolve"
    /\ LET hub_user == user_for_token(hub, req[r].token)
           rq == [req[r] EXCEPT !.hub_user = hub_user, !.hub_calls = @ + 1]
       IN  IF AcceptWebsocket(hub_user)
           THEN \E permissions \in PermChoices :
                  req' = [req EXCEPT ![r] =
                     Finish([rq EXCEPT !.permissions = permissions],
                            WsAccepted(r, permissions))]
           ELSE req' = [req EXCEPT ![r] = Finish(rq, WsClosed)]
    /\ UNCHANGED <<users, heap, lock, hub, task_group, posts, stop_pc, activity_url, names>>

\* ------------------------------------------------------------- GET /api/me
\* request.query_params: no permissions parameter, "{}", a map in single quotes
QueryParams ==
    {<<>>, [permissions |-> "{}"], [permissions |-> "{'contents': ['read', 'write']}"]}

\* json.loads(text.replace("'", '"')) on the texts above
JsonLoads(text) ==
    IF text = "{}" THEN <<>> ELSE [contents |-> <<"read", "write">>]

Range(f) == {f[i] : i \in DOMAIN f}

\* lines 123-134: per requested resource, the requested actions found in the
\* user's permissions, which are the empty dict of line 128
CheckedPermissions(permissions) ==
    LET user_permissions == <<>>
    IN  IF DOMAIN permissions = {}
        THEN <<>>
        ELSE [resource \in DOMAIN permissions |->
                SelectSeq(permissions[resource],
                          LAMBDA action :
                             action \in Range(DictGet(user_permissions, resource, <<>>)))]

\* the keys of line 136 with the token among them
MeKeysWithToken ==
    {"username", "name", "display_name", "initials", "avatar_url", "color", "token"}

\* line 136
MeKeys == {"username", "name", "display_name", "initials", "avatar_url", "color"}

\* getattr(user, k, default)
GetAttr(user, k, default) == IF k \in DOMAIN user THEN user[k] ELSE default

\* lines 136-141: the response body
MeBody(user, permissions) ==
    [identity |-> [k \in MeKeys |-> GetAttr(user, k, None)],
     permissions |-> CheckedPermissions(permissions)]

\* GET /api/me (lines 117-141), entered with the record its dependency
\* current_user() resolved: a record of the store.  The body has no await.
GetApiMe(r) ==
    /\ Free(r)
    /\ \E t \in Stored, query_params \in QueryParams :
         LET permissions == JsonLoads(DictGet(query_params, "permissions", "{}"))
             rq == [IdleReq EXCEPT !.op = "api_me", !.user = users[t],
                                   !.query = query_params]
         IN  req' = [req EXCEPT ![r] =
                Finish(rq, [NoResult EXCEPT !.kind = "response",
                                            !.body = Some(MeBody(heap[users[t]],
                                                                 permissions))])]
    /\ UNCHANGED <<users, heap, lock, hub, task_group, posts, stop_pc, activity_url, names>>

\* ------------------------------------------------------ the hub, lifecycle
\* The hub revokes a token or changes its owner's scopes.
HubChange(t) ==
    /\ hub[t] \in {"scoped", "unscoped"}
    /\ \E s \in {"scoped", "unscoped", "revoked"} \ {hub[t]} : hub' = [hub EXCEPT ![t] = s]
    /\ UNCHANGED <<users, heap, lock, req, task_group, posts, stop_pc, activity_url, names>>

\* start(): the task group is entered and stays open
Start ==
    /\ task_group = "unset"
    /\ task_group' = "active"
    /\ UNCHANGED <<users, heap, lock, hub, req, posts, stop_pc, activity_url, names>>

\* An activity post returns: its task ends.
PostDone ==
    /\ posts > 0
    /\ posts' = posts - 1
    /\ UNCHANGED <<users, heap, lock, hub, req, task_group, stop_pc, activity_url, names>>

\* An activity post raises (the endpoint is unreachable, the client is
\* closed).  The task was started bare in the group: the exception cancels the
\* group, the other posts with it, and start() ends with it.
PostRaise ==
    /\ posts > 0
    /\ posts' = 0
    /\ task_group' = "crashed"
    /\ UNCHANGED <<users, heap, lock, hub, req, stop_pc, activity_url, names>>

\* stop(), line 287: await self.http_client.aclose()
StopClose ==
    /\ task_group # "unset" /\ stop_pc = "idle"
    /\ stop_pc' = "closed"
    /\ UNCHANGED <<users, heap, lock, hub, req, task_group, posts, activity_url, names>>

\* stop() returning without line 288
StopReturn ==
    /\ stop_pc = "closed"
    /\ stop_pc' = "done"
    /\ UNCHANGED <<users, heap, lock, hub, req, task_group, posts, activity_url, names>>

\* stop(), line 288: self.task_group.cancel_scope.cancel().  Every task of the
\* group is parked in an await, where the cancellation ends it; the marking
\* and the ending are one step.
StopCancel ==
    /\ stop_pc = "closed"
    /\ stop_pc' = "done"
    /\ IF task_group = "active"
       THEN task_group' = "cancelled" /\ posts' = 0
       ELSE UNCHANGED <<task_group, posts>>
    /\ UNCHANGED <<users, heap, lock, hub, req, activity_url, names>>

\* The response of a finished request is delivered and its task ends.  Nothing
\* else runs in between: delivery touches no state of the plugin.
Deliver(r) ==
    /\ req[r].pc = "done"
    /\ req' = [req EXCEPT ![r] = IdleReq]
    /\ UNCHANGED <<users, heap, lock, hub, task_group, posts, stop_pc, activity_url, names>>

\* A task or a callback of the event loop can run: no response is waiting to be
\* delivered and the loop's thread is not inside a blocking call.
Ready == Quiet /\ ~Blocking

\* The plugin serving requests of every kind while the hub changes its mind.
Next ==
    \/ \E r \in Reqs : Deliver(r)
    \/ \E r \in Reqs : Ready /\ CbBegin(r)
    \/ \E r \in Reqs : CbExchange(r)
    \/ \E r \in Reqs : Ready /\ CbResolve(r)
    \/ \E r \in Reqs : Ready /\ CbAcquire(r)
    \/ \E r \in Reqs : Ready /\ CbStore(r)
    \/ \E r \in Reqs : Ready /\ CuBegin(r)
    \/ \E r \in Reqs : Ready /\ CuResolve(r)
    \/ \E r \in Reqs : Ready /\ CuAcquire(r)
    \/ \E r \in Reqs : Ready /\ CuGet(r)
    \/ \E r \in Reqs : Ready /\ CuCreate(r)
    \/ \E r \in Reqs : Ready /\ CuReport(r)
    \/ \E r \in Reqs : Ready /\ UuBegin(r)
    \/ \E r \in Reqs : Ready /\ UuAcquire(r)
    \/ \E r \in Reqs : Ready /\ UuApply(r)
    \/ \E r \in Reqs : Ready /\ WsBegin(r)
    \/ \E r \in Reqs : Ready /\ WsResolve(r)
    \/ \E t \in Tokens : Ready /\ HubChange(t)
    \/ Ready /\ PostDone

Spec == Init /\ [][Next]_vars

\* The resolver under the plugin's whole life: start, activity posts that
\* return or raise, stop.
NextLife ==
    \/ \E r \in Reqs : Deliver(r)
    \/ \E r \in Reqs : Quiet /\ CuBegin(r)
    \/ \E r \in Reqs : Quiet /\ CuResolve(r)
    \/ \E r \in Reqs : Quiet /\ CuAcquire(r)
    \/ \E r \in Reqs : Quiet /\ CuGet(r)
    \/ \E r \in Reqs : Quiet /\ CuCreate(r)
    \/ \E r \in Reqs : Quiet /\ CuReport(r)
    \/ \E t \in Tokens : Quiet /\ HubChange(t)
    \/ Quiet /\ Start
    \/ Quiet /\ PostDone
    \/ Quiet /\ PostRaise
    \/ Quiet /\ StopClose
    \/ Quiet /\ StopCancel

SpecLife == InitLife /\ [][NextLife]_vars

\* A process whose sessions all begin at its callback: the hub has issued no
\* token before it started.
InitLogin ==
    /\ Constructed /\ task_group = "active" /\ names = DefaultNames
    /\ hub = [t \in Tokens |-> "unissued"]

\* Logins, the requests of the sessions they open, updates and GET /api/me.
\* The resolver's miss branch (lines 174-187) is not among the steps: a
\* resolution that takes it stays at "cu_create".
NextLogin ==
    \/ \E r \in Reqs : Deliver(r)
    \/ \E r \in Reqs : Ready /\ CbBegin(r)
    \/ \E r \in Reqs : CbExchange(r)
    \/ \E r \in Reqs : Ready /\ CbResolve(r)
    \/ \E r \in Reqs : Ready /\ CbAcquire(r)
    \/ \E r \in Reqs : Ready /\ CbStore(r)
    \/ \E r \in Reqs : Ready /\ CuBegin(r)
    \/ \E r \in Reqs : Ready /\ CuResolve(r)
    \/ \E r \in Reqs : Ready /\ CuAcquire(r)
    \/ \E r \in Reqs : Ready /\ CuGet(r)
    \/ \E r \in Reqs : Ready /\ CuReport(r)
    \/ \E r \in Reqs : Ready /\ UuBegin(r)
    \/ \E r \in Reqs : Ready /\ UuAcquire(r)
    \/ \E r \in Reqs : Ready /\ UuApply(r)
    \/ \E r \in Reqs : Ready /\ GetApiMe(r)
    \/ \E t \in Tokens : Ready /\ HubChange(t)
    \/ Ready /\ PostDone

SpecLogin == InitLogin /\ [][NextLogin]_vars

\* The names the hub's directory can hold.
Names == {HubNames[i] : i \in DOMAIN HubNames}

\* The started plugin under every directory of the hub.
InitIdentity ==
    /\ Constructed /\ task_group = "active"
    /\ names \in [Tokens -> Names]

\* The two places that build a record: the callback and the resolver.
NextIdentity ==
    \/ \E r \in Reqs : Deliver(r)
    \/ \E r \in Reqs : Ready /\ CbBegin(r)
    \/ \E r \in Reqs : CbExchange(r)
    \/ \E r \in Reqs : Ready /\ CbResolve(r)
    \/ \E r \in Reqs : Ready /\ CbAcquire(r)
    \/ \E r \in Reqs : Ready /\ CbStore(r)
    \/ \E r \in Reqs : Ready /\ CuBegin(r)
    \/ \E r \in Reqs : Ready /\ CuResolve(r)
    \/ \E r \in Reqs : Ready /\ CuAcquire(r)
    \/ \E r \in Reqs : Ready /\ CuGet(r)
    \/ \E r \in Reqs : Ready /\ CuCreate(r)
    \/ \E r \in Reqs : Ready /\ CuReport(r)
    \/ Ready /\ PostDone

SpecIdentity == InitIdentity /\ [][NextIdentity]_vars

\* =================================================================== claims
StateMismatch(rq) == rq.state = None \/ rq.state # rq.cookie_state

\* C1: a callback whose state parameter is absent or differs from the state
\* cookie (an absent cookie included) is never anywhere but finished with 403:
\* it made no hub call, sets no session cookie, and its one step left the
\* store, the records and the hub as they were.
C1_StateMismatchForbidden ==
    \A r \in Reqs :
        (req[r].op = "callback" /\ StateMismatch(req[r])) =>
            /\ req[r].pc = "done"
            /\ req[r].result.kind = "http_exception"
            /\ req[r].result.status = HTTP_403_FORBIDDEN
            /\ req[r].result.session_cookie = NoToken
            /\ req[r].hub_calls = 0
            /\ req[r].inserted = 0
            /\ req[r].before.users = users
            /\ req[r].before.heap = heap
            /\ req[r].before.hub = hub

\* C1 witness: a callback with both values present and different was refused
\* while the store holds a record.
C1_Witness ==
    \E r \in Reqs :
        /\ req[r].op = "callback" /\ req[r].pc = "done"
        /\ req[r].state # None /\ req[r].cookie_state # None
        /\ req[r].state # req[r].cookie_state
        /\ req[r].result.status = HTTP_403_FORBIDDEN
        /\ Stored # {}

\* C2: a callback with a code and a state equal to the cookie, whose code the
\* hub exchanged for token t and whose token the hub resolved, ends in a 307 to
\* the URL encoded in the state with the session cookie set to t; its last step
\* added one entry, under t, where there was none, a new record whose token is
\* t, and changed no other entry and no other record.
C2_CallbackStoresOneEntry ==
    \A r \in Reqs :
        (req[r].op = "callback" /\ req[r].pc = "done" /\ req[r].hub_user # None) =>
            LET t == req[r].token
                b == req[r].before
            IN  /\ req[r].state = req[r].cookie_state
                /\ req[r].result.kind = "response"
                /\ req[r].result.status = HTTP_307_TEMPORARY_REDIRECT
                /\ req[r].result.location = <<req[r].state[2]>>
                /\ t \in Tokens
                /\ req[r].result.session_cookie = t
                /\ req[r].inserted = 1
                /\ b.users[t] = 0
                /\ users[t] = Len(b.heap) + 1
                /\ \A u \in Tokens \ {t} : users[u] = b.users[u]
                /\ Len(heap) = Len(b.heap) + 1
                /\ \A i \in DOMAIN b.heap : heap[i] = b.heap[i]
                /\ heap[users[t]].token = t

\* C2 witness: a callback has redirected with its record in a store that holds
\* another token's record too.
C2_Witness ==
    \E r \in Reqs :
        /\ req[r].op = "callback" /\ req[r].pc = "done"
        /\ req[r].result.kind = "response"
        /\ req[r].result.location = <<"/tree">>
        /\ users[req[r].token] # 0
        /\ Stored \ {req[r].token} # {}

Validated(rq) == rq.hub_user # None /\ AccessScope \in rq.hub_user[1].scopes

\* C3: with only resolutions running, at most one record is ever constructed
\* for a token, the store's entry for a token is that record, and every
\* resolution that has passed the locked region holds exactly the stored
\* record, whose token is the one presented; a resolution that returns, returns
\* it.
C3_OneRecordPerToken ==
    /\ \A t \in Tokens : Cardinality({i \in DOMAIN heap : heap[i].token = t}) <= 1
    /\ \A t \in Stored : heap[users[t]].token = t
    /\ \A r \in Reqs :
          (/\ req[r].op = "current_user" /\ req[r].pc \in {"cu_report", "done"}
           /\ Validated(req[r])) =>
              /\ req[r].user # 0
              /\ req[r].user = users[req[r].token]
              /\ heap[req[r].user].token = req[r].token
              /\ req[r].result.kind = "return" => req[r].result.user = req[r].user

\* C3 witness: two resolutions of one token are in flight; one has inserted
\* the record and the other returns that record without inserting.
C3_Witness ==
    \E r1, r2 \in Reqs :
        /\ r1 # r2
        /\ req[r1].op = "current_user" /\ req[r1].pc = "cu_report"
        /\ req[r1].inserted = 1
        /\ req[r2].op = "current_user" /\ req[r2].pc = "done"
        /\ req[r2].token = req[r1].token
        /\ req[r2].inserted = 0
        /\ req[r2].result.kind = "return"
        /\ req[r2].result.user = req[r1].user

\* C4: every record in the store has the token it is stored under.
C4_TokenImmutable == \A t \in Stored : heap[users[t]].token = t

HubRejected(rq) == rq.hub_calls >= 1 /\ rq.hub_user = None

\* A 307 whose Location is the hub's login URL with a state appended and whose
\* Set-Cookie carries the same state, which encodes the request's URL.
IsLoginRedirect(rq) ==
    /\ rq.result.kind = "http_exception"
    /\ rq.result.status = HTTP_307_TEMPORARY_REDIRECT
    /\ \E st \in States :
          /\ st[2] = rq.url
          /\ rq.result.location = <<LoginUrl, "&state=", st>>
          /\ rq.result.set_cookie = <<st>>

\* C6: a resolution whose token the hub rejects is never anywhere but finished
\* with a login redirect (307, Location, state Set-Cookie), whatever the store
\* holds for the token: it returns no record, has inserted nothing, has
\* scheduled no activity post, and its last step left the store, the records
\* and the posts as they were.
C6_RejectedTokenRedirects ==
    \A r \in Reqs :
        (req[r].op = "current_user" /\ HubRejected(req[r])) =>
            /\ req[r].pc = "done"
            /\ IsLoginRedirect(req[r])
            /\ req[r].result.user = 0
            /\ req[r].user = 0
            /\ req[r].inserted = 0
            /\ req[r].scheduled = 0
            /\ req[r].before.users = users
            /\ req[r].before.heap = heap
            /\ req[r].before.posts = posts

\* C6 witness: the hub rejected a token whose record is still in the store, and
\* the resolution was redirected.
C6_Witness ==
    \E r \in Reqs :
        /\ req[r].op = "current_user" /\ req[r].pc = "done"
        /\ HubRejected(req[r])
        /\ users[req[r].token] # 0
        /\ req[r].result.status = HTTP_307_TEMPORARY_REDIRECT

\* C7: a resolution without a session cookie finishes in its first step, with
\* no hub call and the store, the records and the lock untouched: 403 when a
\* non-empty permissions map was required, a login redirect otherwise.
C7_NoCookieOutcome ==
    \A r \in Reqs :
        (req[r].op = "current_user" /\ req[r].token = NoToken) =>
            /\ req[r].pc = "done"
            /\ req[r].hub_calls = 0
            /\ req[r].inserted = 0
            /\ req[r].scheduled = 0
            /\ req[r].result.user = 0
            /\ req[r].before.users = users
            /\ req[r].before.heap = heap
            /\ req[r].before.lock = lock
            /\ req[r].before.hub = hub
            /\ req[r].before.posts = posts
            /\ IF req[r].permissions # None /\ DOMAIN req[r].permissions[1] # {}
               THEN /\ req[r].result.kind = "http_exception"
                    /\ req[r].result.status = HTTP_403_FORBIDDEN
               ELSE IsLoginRedirect(req[r])

\* C7 witness: without a cookie and with the empty permissions map required,
\* the resolution was redirected while the store holds a record.
C7_Witness ==
    \E r \in Reqs :
        /\ req[r].op = "current_user" /\ req[r].pc = "done"
        /\ req[r].token = NoToken
        /\ req[r].permissions = Some(<<>>)
        /\ req[r].result.status = HTTP_307_TEMPORARY_REDIRECT
        /\ Stored # {}

ScopeRefused(rq) == rq.hub_user # None /\ AccessScope \notin rq.hub_user[1].scopes

\* C8: a resolution whose token the hub resolves to a user without the access
\* scope is never anywhere but finished with 403 naming the user: it returns no
\* record, has inserted nothing, has scheduled no activity post, and its last
\* step left the store, the records and the posts as they were.
C8_ScopeFailureForbidden ==
    \A r \in Reqs :
        (req[r].op = "current_user" /\ ScopeRefused(req[r])) =>
            /\ req[r].pc = "done"
            /\ req[r].result.kind = "http_exception"
            /\ req[r].result.status = HTTP_403_FORBIDDEN
            /\ req[r].result.detail =
                  <<"User", req[r].hub_user[1].name, "cannot access this server">>
            /\ req[r].result.user = 0
            /\ req[r].user = 0
            /\ req[r].inserted = 0
            /\ req[r].scheduled = 0
            /\ req[r].before.users = users
            /\ req[r].before.heap = heap
            /\ req[r].before.posts = posts

\* C8 witness: a user without the scope was refused and the store has no record
\* for the token.
C8_Witness ==
    \E r \in Reqs :
        /\ req[r].op = "current_user" /\ req[r].pc = "done"
        /\ ScopeRefused(req[r])
        /\ req[r].result.status = HTTP_403_FORBIDDEN
        /\ users[req[r].token] = 0

\* The gate's outcome, but for what the first element of the returned pair is.
C9_Outcome(r) ==
    /\ req[r].inserted = 0
    /\ req[r].before.users = users
    /\ req[r].before.heap = heap
    /\ IF req[r].token = NoToken \/ req[r].hub_user = None
       THEN /\ req[r].result.closed = WS_1008_POLICY_VIOLATION
            /\ req[r].result.principal = None
       ELSE /\ req[r].result.closed = 0
            /\ req[r].result.principal # None
            /\ req[r].result.principal[1].permissions = req[r].permissions

WsDone(r) == req[r].op = "websocket" /\ req[r].pc = "done"

\* C9 as stated: a handshake without a cookie or with a token the hub rejects
\* is closed with 1008 and returns None; one whose token the hub accepts is not
\* closed and returns the resolved identity with the permissions requested;
\* the store and the records are as they were.
C9_GateReturnsIdentity ==
    \A r \in Reqs :
        WsDone(r) =>
            /\ C9_Outcome(r)
            /\ req[r].result.principal # None =>
                  req[r].result.principal[1].first.tag = "identity"

\* C9 amended: as stated, except that the first element of the pair returned
\* on success is the WebSocket connection itself, not the resolved identity.
C9_GateReturnsWebsocket ==
    \A r \in Reqs :
        WsDone(r) =>
            /\ C9_Outcome(r)
            /\ req[r].result.principal # None =>
                  /\ req[r].result.principal[1].first.tag = "websocket"
                  /\ req[r].result.principal[1].first.id = r

\* C9 witness: a handshake with a token the hub accepts returned a pair with a
\* non-empty permissions map, in a store holding a record.
C9_Witness ==
    \E r \in Reqs :
        /\ req[r].op = "websocket" /\ req[r].pc = "done"
        /\ req[r].hub_user # None
        /\ req[r].result.principal # None
        /\ req[r].permissions = Some([contents |-> <<"read">>])
        /\ Stored # {}

\* C10: a post that raised has not taken the task group down, and no later
\* resolution fails on scheduling its post while the plugin has not been
\* stopped.
C10_ReportFailureSuppressed ==
    /\ task_group # "crashed"
    /\ \A r \in Reqs :
          ~(/\ req[r].op = "current_user" /\ req[r].pc = "done"
            /\ stop_pc = "idle"
            /\ req[r].result.kind = "exception"
            /\ req[r].result.detail = <<"RuntimeError">>)

\* C11: a callback that finished on a hub failure (the code exchange failed, or
\* the exchanged token resolved to no identity) answered 403, set no session
\* cookie, made no hub call twice, and left the store and the records as they
\* were.
C11_HubFailureForbidden ==
    \A r \in Reqs :
        (/\ req[r].op = "callback" /\ req[r].pc = "done"
         /\ req[r].hub_calls >= 1 /\ req[r].hub_user = None) =>
            /\ req[r].result.status = HTTP_403_FORBIDDEN
            /\ req[r].result.session_cookie = NoToken
            /\ req[r].hub_calls <= 2
            /\ req[r].inserted = 0
            /\ req[r].before.users = users
            /\ req[r].before.heap = heap

\* A resolution that got past the hub: the token resolved and the scope check
\* passed.
PastHub(rq) ==
    /\ rq.op = "current_user" /\ rq.pc # "cu_resolve"
    /\ rq.hub_user # None /\ AccessScope \in rq.hub_user[1].scopes

\* C12: in a process whose tokens all come from its callback: a login redirect
\* for a request to u carries one state, encoding u, in the Location after the
\* hub's login URL and in the state cookie; a callback presenting a state equal
\* to its cookie, whose code the hub exchanged for a token it resolves,
\* redirects to the URL the state encodes with the session cookie set to the
\* new token, whose record it has just inserted; and a resolution with a token
\* the hub accepts never takes the miss branch: it inserts nothing, holds the
\* record the store has for the token, and returns it.  Every record ever
\* inserted is still the store's entry of one token.
C12_LoginRoundTrip ==
    /\ Cardinality(Stored) = Len(heap)
    /\ \A t, u \in Stored : users[t] = users[u] => t = u
    /\ \A r \in Reqs :
          /\ (/\ req[r].op = "current_user" /\ req[r].pc = "done"
              /\ req[r].result.status = HTTP_307_TEMPORARY_REDIRECT) =>
                 \E st \in States :
                    /\ st[2] = req[r].url
                    /\ req[r].result.location = <<LoginUrl, "&state=", st>>
                    /\ req[r].result.set_cookie = <<st>>
          /\ (/\ req[r].op = "callback" /\ req[r].pc = "done"
              /\ req[r].hub_user # None) =>
                 /\ req[r].state = req[r].cookie_state
                 /\ req[r].result.status = HTTP_307_TEMPORARY_REDIRECT
                 /\ req[r].result.location = <<req[r].state[2]>>
                 /\ req[r].result.session_cookie = req[r].token
                 /\ req[r].before.hub[req[r].token] # "unissued"
                 /\ req[r].before.users[req[r].token] = 0
                 /\ users[req[r].token] = Len(heap)
          /\ PastHub(req[r]) =>
                 /\ req[r].pc # "cu_create"
                 /\ req[r].inserted = 0
                 /\ req[r].pc \in {"cu_report", "done"} =>
                       /\ req[r].user # 0
                       /\ req[r].user = users[req[r].token]
                 /\ req[r].pc = "done" =>
                       /\ req[r].result.kind = "return"
                       /\ req[r].result.user = users[req[r].token]
                       /\ req[r].before.users = users
                       /\ req[r].before.heap = heap

\* C12 witness: after two logins, the second to "/tree", a request with the
\* second login's token has been resolved to the second record.
C12_Witness ==
    \E r \in Reqs :
        /\ req[r].op = "current_user" /\ req[r].pc = "done"
        /\ req[r].result.kind = "return"
        /\ req[r].token = MaxTokens
        /\ req[r].result.user = users[req[r].token]
        /\ req[r].inserted = 0
        /\ Len(heap) = MaxTokens

\* C13: a handshake is accepted exactly when a resolution given the same answer
\* of the hub would return a user: the token resolved and the scope check
\* passed; in every other case the connection is closed.
C13_GateSameValidation ==
    \A r \in Reqs :
        WsDone(r) =>
            IF /\ req[r].token # NoToken /\ req[r].hub_user # None
               /\ AccessScope \in req[r].hub_user[1].scopes
            THEN req[r].result.closed = 0 /\ req[r].result.principal # None
            ELSE /\ req[r].result.closed = WS_1008_POLICY_VIOLATION
                 /\ req[r].result.principal = None

\* The positions of s where a word begins.
WordStarts(s) == {i \in 1..Len(s) : s[i] # " " /\ (i = 1 \/ s[i - 1] = " ")}

\* e is what the derivation is to give for a display name d and a username u:
\* one capital per word of d, in the order of the words, or, when d has no
\* word, the first character of u alone, capitalised.
IsInitialsOf(e, d, u) ==
    LET W == WordStarts(d)
    IN  IF W # {}
        THEN /\ Len(e) = Cardinality(W)
             /\ \A i \in W : e[Cardinality({j \in W : j <= i})] = Upper(d[i])
        ELSE e = <<Upper(u[1])>>

\* Display names: the hub's names, the empty one, whitespace only.
DisplayNames == Names \cup {<<>>, <<" ", " ">>}

\* C14: for every display name and username the derivation gives the capitals
\* of the display name's words in order ("al wo" gives "AW", "bob" gives "B")
\* and, for an empty or whitespace-only display name, the capital of the
\* username's first character (username "bob" gives "B"); every record the
\* callback or the resolver has built carries the hub's name as username and
\* display name, and as initials what the derivation gives for them, which is
\* never empty.
C14_InitialsDerivation ==
    /\ \A d \in DisplayNames, u \in Names :
          IsInitialsOf(DeriveInitials(d, u), d, u)
    /\ DeriveInitials(<<"a", "l", " ", "w", "o">>, <<"b", "o", "b">>) = <<"A", "W">>
    /\ DeriveInitials(<<"b", "o", "b">>, <<"b", "o", "b">>) = <<"B">>
    /\ DeriveInitials(<<>>, <<"b", "o", "b">>) = <<"B">>
    /\ DeriveInitials(<<" ", " ">>, <<"b", "o", "b">>) = <<"B">>
    /\ \A i \in DOMAIN heap :
          /\ heap[i].username = names[heap[i].token]
          /\ heap[i].display_name = names[heap[i].token]
          /\ IsInitialsOf(heap[i].initials, heap[i].display_name, heap[i].username)
          /\ heap[i].initials # <<>>

\* C14 witness: the callback and the resolver have each just built a record
\* for an owner named " n  o ", and both records have the initials "NO".
C14_Witness ==
    \E r1, r2 \in Reqs :
        /\ req[r1].op = "callback" /\ req[r1].pc = "done" /\ req[r1].inserted = 1
        /\ req[r2].op = "current_user" /\ req[r2].pc = "cu_report"
        /\ req[r2].inserted = 1
        /\ heap[req[r1].user].display_name = <<" ", "n", " ", " ", "o", " ">>
        /\ heap[req[r2].user].display_name = <<" ", "n", " ", " ", "o", " ">>
        /\ heap[req[r1].user].initials = <<"N", "O">>
        /\ heap[req[r2].user].initials = <<"N", "O">>

\* C15: GET /api/me answers with an identity of exactly the six keys username,
\* name, display_name, initials, avatar_url and color, each with the value the
\* resolved record has for it, and, when the permissions parameter is absent
\* or "{}", with an empty permissions object, whatever permissions the record
\* holds; the store and the records are as they were.
C15_ApiMeEmptyPermissions ==
    \A r \in Reqs :
        (req[r].op = "api_me" /\ req[r].pc = "done") =>
            LET body == req[r].result.body[1]
                user == heap[req[r].user]
            IN  /\ DOMAIN body = {"identity", "permissions"}
                /\ DOMAIN body.identity =
                      {"username", "name", "display_name", "initials", "avatar_url",
                       "color"}
                /\ \A k \in DOMAIN body.identity : body.identity[k] = user[k]
                /\ (req[r].query = <<>> \/ req[r].query.permissions = "{}") =>
                      DOMAIN body.permissions = {}
                /\ req[r].before.users = users
                /\ req[r].before.heap = heap

\* C15 witness: GET /api/me?permissions={} was answered with no permissions
\* for a record that update_user gave permissions and another display name.
C15_Witness ==
    \E r \in Reqs :
        /\ req[r].op = "api_me" /\ req[r].pc = "done"
        /\ req[r].query # <<>>
        /\ req[r].query.permissions = "{}"
        /\ heap[req[r].user].permissions = [contents |-> <<"read">>]
        /\ req[r].result.body[1].identity.display_name = <<"X">>
        /\ DOMAIN req[r].result.body[1].permissions = {}

\* A request is waiting for the hub: the code exchange or a token resolution.
HubWaiting(r) == req[r].pc \in {"cb_exchange", "cb_resolve", "cu_resolve", "ws_resolve"}

\* The step of a task that is inside the locked region, as the plugin takes it.
LockedStep(r) == Ready /\ (CbStore(r) \/ CuGet(r) \/ CuCreate(r) \/ UuApply(r))

\* C16: a request waiting for the hub does not hold the store lock, and while
\* one is waiting (with no response pending delivery) any other task that is
\* inside the locked region can take its step.
C16_HubCallBlocksOnlyCaller ==
    /\ \A r \in Reqs : HubWaiting(r) => lock # r
    /\ \A r, r2 \in Reqs :
          (/\ r # r2 /\ Quiet /\ HubWaiting(r)
           /\ req[r2].pc \in {"cb_store", "cu_get", "cu_create", "uu_apply"}) =>
              ENABLED LockedStep(r2)

\* C17: the step of a resolution that looks its token up (it holds the lock)
\* leaves the store and every record as they are; on a hit it goes on with the
\* store's record for the token and has inserted nothing, on a miss it goes on
\* to build a record.  The step that builds adds one record, made from the
\* token and the hub's identity, and one entry, under the token, and changes
\* nothing else.  The step that returns leaves the store and the records as
\* they are and returns the record held.
C17_HitReturnsCachedRecord ==
    [][\A r \in Reqs :
         req[r].op = "current_user" =>
            /\ (req[r].pc = "cu_get" /\ req'[r].pc # "cu_get") =>
                  /\ users' = users /\ heap' = heap
                  /\ IF users[req[r].token] # 0
                     THEN /\ req'[r].pc = "cu_report"
                          /\ req'[r].user = users[req[r].token]
                          /\ req'[r].inserted = 0
                     ELSE req'[r].pc = "cu_create"
            /\ (req[r].pc = "cu_create" /\ req'[r].pc # "cu_create") =>
                  /\ users[req[r].token] = 0
                  /\ users' = [users EXCEPT ![req[r].token] = Len(heap) + 1]
                  /\ Len(heap') = Len(heap) + 1
                  /\ \A i \in DOMAIN heap : heap'[i] = heap[i]
                  /\ heap'[Len(heap')].token = req[r].token
                  /\ heap'[Len(heap')].username = req[r].hub_user[1].name
                  /\ req'[r].user = Len(heap')
                  /\ req'[r].inserted = 1
            /\ (req[r].pc = "cu_report" /\ req'[r].pc = "done") =>
                  /\ users' = users /\ heap' = heap
                  /\ req'[r].result.kind = "return" =>
                        req'[r].result.user = req[r].user
      ]_vars

\* C17 witness: a resolution has returned, without inserting, the store's
\* record for its token, which still has the display name update_user gave it
\* and not the hub's.
C17_Witness ==
    \E r \in Reqs :
        /\ req[r].op = "current_user" /\ req[r].pc = "done"
        /\ req[r].result.kind = "return"
        /\ req[r].inserted = 0
        /\ req[r].result.user = users[req[r].token]
        /\ heap[req[r].result.user].display_name = <<"X">>
        /\ req[r].hub_user[1].name # <<"X">>

\* C18: a resolution has scheduled nothing before its last step; one that
\* returned a user scheduled one activity post if the activity endpoint is
\* configured and none if it is not, and returned in the step that scheduled
\* it, with the post in the task group beside the posts that were there; one
\* that ended otherwise scheduled none and left the posts as they were.
C18_ReportScheduledOnce ==
    \A r \in Reqs :
        req[r].op = "current_user" =>
            /\ req[r].pc # "done" => req[r].scheduled = 0
            /\ (req[r].pc = "done" /\ req[r].result.kind = "return") =>
                  /\ req[r].scheduled = IF activity_url THEN 1 ELSE 0
                  /\ posts = req[r].before.posts + req[r].scheduled
            /\ (req[r].pc = "done" /\ req[r].result.kind # "return") =>
                  /\ req[r].scheduled = 0
                  /\ posts = req[r].before.posts

\* C18 witness: a resolution has returned its user while the post it scheduled
\* is still in the running task group.
C18_Witness ==
    \E r \in Reqs :
        /\ req[r].op = "current_user" /\ req[r].pc = "done"
        /\ req[r].result.kind = "return" /\ req[r].result.user # 0
        /\ req[r].scheduled = 1
        /\ posts = 1 /\ task_group = "active"

C20_FailureInsertsNothing ==
    \A r \in Reqs :
        (/\ req[r].op = "current_user" /\ req[r].pc = "done"
         /\ req[r].result.kind # "return") =>
            req[r].inserted = 0

====
